---- MODULE Spec2Model ----
(***************************************************************************)
(* SpellCraft: plugin discovery, namespacing and the native-function       *)
(* bridge of the SpellFrame class (the refactored draft with               *)
(* loadPluginsFromDependencies / loadLocalMagicModules / loadPlugin).      *)
(*                                                                         *)
(* One process run is modelled: `new SpellFrame()` (the constructor with   *)
(* everything it calls), further loadPlugin calls and init() during setup, *)
(* then render / renderString with the evaluation engine calling back into *)
(* the registered native functions, directly (std.native) or through the   *)
(* generated aggregator file (modules.<namespace>.<export>).               *)
(*                                                                         *)
(* Strings are TLA+ strings, concatenated with \o exactly as the template  *)
(* literals of the source concatenate them.                                *)
(***************************************************************************)
EXTENDS Integers, Sequences, FiniteSets, TLC

VARIABLES
    project,    \* the host project on disk: package.json, node_modules, spellcraft_modules,
                \* .spellcraft/modules as an earlier run left it, and the program run in it
    aggregate,  \* the generated file .spellcraft/modules
    sf,         \* the fields of the SpellFrame instance
    pc,         \* "start", "setup", "init", "idle", "evaluating", "aborting",
                \* "rendered", "done", "failed"
    calls,      \* per callable and argument key, how often the callable's body ran
    lastCall,   \* the last invocation the evaluation engine made and what it got back
    hookLog,    \* the initialization hooks init() has started, in order, and how each ended
    made,       \* how many invocations and loadPlugin calls the run has made
    outcome,    \* the last render or renderString call and how it ended
    renderDir   \* the names of the files in the render directory

vars == <<project, aggregate, sf, pc, calls, lastCall, hookLog, made, outcome, renderDir>>

(***************************************************************************)
(* Bounds of the exploration.                                              *)
(***************************************************************************)
\* native-function invocations the evaluation engine makes in one process run
MaxCalls == 2
\* loadPlugin calls made by the host program after the constructor returned
MaxReloads == 1

(***************************************************************************)
(* JavaScript values that cross the bridge.                                *)
(***************************************************************************)
JsNumber(n) == [t |-> "number", n |-> n, s |-> ""]
JsNaN == [t |-> "number", n |-> 0, s |-> "NaN"]
JsString(s) == [t |-> "string", n |-> 0, s |-> s]
JsFalse == [t |-> "boolean", n |-> 0, s |-> "false"]
JsUndefined == [t |-> "undefined", n |-> 0, s |-> ""]
\* not a value: the callable threw
Thrown == [t |-> "throw", n |-> 0, s |-> ""]

\* argument lists the evaluation engine passes
ArgLists == {<< >>, <<2, 3>>}

(***************************************************************************)
(* Generic helpers.                                                        *)
(***************************************************************************)
\* obj[k] = v on a JavaScript object used as a map
Put(f, k, v) == [x \in DOMAIN f \cup {k} |-> IF x = k THEN v ELSE f[x]]

\* Object.assign, had it kept the target's value of a key both objects have
ObjectAssignKeepsTarget(target, source) ==
    [x \in DOMAIN target \cup DOMAIN source |->
        IF x \in DOMAIN target THEN target[x] ELSE source[x]]

\* Object.assign(target, source)
ObjectAssign(target, source) ==
    [x \in DOMAIN target \cup DOMAIN source |->
        IF x \in DOMAIN source THEN source[x] ELSE target[x]]

EmptyObject == [x \in {} |-> 0]

Range(q) == {q[i] : i \in DOMAIN q}

\* how many entries of a list equal x
RECURSIVE Count(_, _)
Count(q, x) ==
    IF q = << >> THEN 0
    ELSE (IF Head(q) = x THEN 1 ELSE 0) + Count(Tail(q), x)

\* the first and the last of a set of positions, 0 for the empty set
First(positions) ==
    IF positions = {} THEN 0 ELSE CHOOSE i \in positions : \A j \in positions : i <= j
Last(positions) ==
    IF positions = {} THEN 0 ELSE CHOOSE i \in positions : \A j \in positions : j <= i

(***************************************************************************)
(* What entry files and local scripts export (the entry-point export       *)
(* contract): a list of exports in Object.keys order, each a function, an  *)
(* array [function, paramName...] or something else, plus the reserved     *)
(* _spellcraft_metadata block.                                             *)
(***************************************************************************)
\* the function bodies that occur in the modelled packages and scripts
Bodies ==
    {"add", "first", "noop", "boom", "shout", "sum", "pick", "double", "envvar", "path",
     "whoami"}

FunctionExport(name, body) == [name |-> name, kind |-> "function", body |-> body, params |-> << >>]
ArrayExport(name, body, params) == [name |-> name, kind |-> "array", body |-> body, params |-> params]
OtherExport(name) == [name |-> name, kind |-> "other", body |-> "", params |-> << >>]

\* a metadata field that holds one hook, a list of hooks, or is absent
NoHook == [kind |-> "absent", items |-> << >>]
OneHook(h) == [kind |-> "single", items |-> <<h>>]
HookList(hs) == [kind |-> "array", items |-> hs]

NoMetadata ==
    [present |-> FALSE, fileTypeHandlers |-> << >>, cliExtensions |-> NoHook,
     initFn |-> NoHook, functionContext |-> EmptyObject]

Metadata(handlers, cli, init, ctx) ==
    [present |-> TRUE, fileTypeHandlers |-> handlers, cliExtensions |-> cli,
     initFn |-> init, functionContext |-> ctx]

\* "7" is a package whose name is an integer
Packages == {"p", "q", "local_a_b", "7"}

\* module.exports of a package's entry file
EntryModule(pkg) ==
    CASE pkg = "p" ->
           [exports |-> <<FunctionExport("c", "add")>>,
            metadata |-> Metadata(<< >>, NoHook, HookList(<<"p.init", "p.check">>),
                                  [k \in {"region"} |-> "p"])]
      [] pkg = "q" ->
           [exports |-> <<ArrayExport("c", "first", <<"x", "y">>),
                          FunctionExport("b_c", "noop")>>,
            metadata |-> Metadata(<<[pattern |-> ".*?.tf$", handler |-> "q.tf"]>>,
                                  OneHook("q.cli"), OneHook("q.init"),
                                  [k \in {"region", "account"} |-> "q"])]
      [] pkg = "7" ->
           [exports |-> <<FunctionExport("c", "whoami")>>, metadata |-> NoMetadata]
      [] OTHER ->
           [exports |-> <<FunctionExport("c", "boom"), OtherExport("version")>>,
            metadata |-> NoMetadata]

\* a directory entry of spellcraft_modules: name = stem \o ext
File(stem, ext) == [stem |-> stem, ext |-> ext]
FileName(f) == f.stem \o f.ext

\* module.exports of a local script; loads = FALSE when require() throws
LocalModule(file) ==
    CASE FileName(file) = "a.js" ->
           [loads |-> TRUE,
            exports |-> <<FunctionExport("b_c", "add"), FunctionExport("b:c", "first")>>]
      [] FileName(file) = "a_b.js" ->
           [loads |-> TRUE,
            exports |-> <<OtherExport("_spellcraft_metadata"),
                          ArrayExport("c", "first", <<"x", "y">>),
                          OtherExport("limit")>>]
      [] FileName(file) = "utils.js" ->
           [loads |-> TRUE,
            exports |-> <<FunctionExport("shout", "shout"), FunctionExport("add", "add"),
                          FunctionExport("sum", "sum"), FunctionExport("pick", "pick"),
                          FunctionExport("double", "double")>>]
      [] OTHER -> [loads |-> FALSE, exports |-> << >>]

(***************************************************************************)
(* The host project: the root package.json, what is installed under        *)
(* node_modules, and the spellcraft_modules folder.                        *)
(***************************************************************************)
Installed(deps, requires) ==
    [resolves |-> TRUE, marker |-> TRUE, entry |-> "ok", main |-> "",
     dependencies |-> deps, devDependencies |-> << >>, requires |-> requires]

Flat == [p \in Packages |-> Installed(<< >>, {})]

\* p's entry file throws, q's entry file is lib/main.js, local_a_b is not an
\* extension
Broken ==
    [Flat EXCEPT !["p"].entry = "throws", !["q"].main = "lib/main.js",
                 !["local_a_b"].marker = FALSE]

Installs ==
    { Flat,
      \* p depends on q
      [Flat EXCEPT !["p"].dependencies = <<"q">>],
      \* p and q depend on each other
      [Flat EXCEPT !["p"].dependencies = <<"q">>, !["q"].dependencies = <<"p">>],
      \* p and q both depend on local_a_b
      [Flat EXCEPT !["p"].dependencies = <<"local_a_b">>,
                   !["q"].dependencies = <<"local_a_b">>],
      \* p requires q, which is not installed
      [Flat EXCEPT !["p"].requires = {"q"}, !["q"].resolves = FALSE],
      \* an entry file that throws, a package without the marker, a missing entry file
      Broken,
      [Flat EXCEPT !["p"].entry = "missing"],
      \* p is a development dependency of local_a_b
      [Flat EXCEPT !["local_a_b"].devDependencies = <<"p">>],
      \* q, with its functions, hooks and context fields, is not an extension
      [Flat EXCEPT !["q"].marker = FALSE] }

Manifest(deps, dev) ==
    [present |-> TRUE, parses |-> TRUE, dependencies |-> deps, devDependencies |-> dev]

NoManifest == [Manifest(<< >>, << >>) EXCEPT !.present = FALSE]
BadManifest == [Manifest(<< >>, << >>) EXCEPT !.parses = FALSE]

\* root manifests that declare dependencies
Manifests ==
    { Manifest(<<"p">>, << >>),
      Manifest(<<"p", "q">>, << >>),
      Manifest(<<"q">>, <<"local_a_b", "q">>),
      Manifest(<<"p", "7">>, <<"q">>) }

NoModulesDir == [present |-> FALSE, files |-> << >>]

\* a folder whose first script fails to load
BrokenModulesDir ==
    [present |-> TRUE, files |-> <<File("_bad", ".js"), File("a_b", ".js")>>]

\* the folder of the README, with utils.js
UtilsModulesDir == [present |-> TRUE, files |-> <<File("utils", ".js")>>]

\* spellcraft_modules folders; readdirSync returns the names sorted
ModulesDirs ==
    { [present |-> TRUE, files |-> <<File("a", ".js")>>],
      [present |-> TRUE, files |-> <<File("a", ".js"), File("a_b", ".js"), File("notes", ".txt")>>],
      BrokenModulesDir }

\* one wrapper of the aggregator: funcName(params):: std.native("uniqueId")(params)
Wrapper(funcName, params, uniqueId) ==
    [funcName |-> funcName, params |-> params, native |-> uniqueId]

\* the file .spellcraft/modules: one part per namespace, each a list of wrappers
NoArtifact == [exists |-> FALSE, content |-> << >>]
Artifact(parts) == [exists |-> TRUE, content |-> parts]

\* what an earlier run may have left at .spellcraft/modules: nothing, a
\* namespace of a script that is gone, a namespace a with a wrapper that is gone
Artifacts ==
    { NoArtifact,
      Artifact(<<[moduleName |-> "old",
                  methods |-> <<Wrapper("gone", << >>, "local_old_gone")>>]>>),
      Artifact(<<[moduleName |-> "a",
                  methods |-> <<Wrapper("gone", <<"x">>, "local_a_gone"),
                                Wrapper("b_c", <<"a", "b">>, "local_a_b_c")>>]>>) }

\* process.cwd(), the baseDir of the module, and a directory below it
Cwd == "/project"
SubDir == "/project/sub"

\* the projects in which a program uses the API: loadPlugin calls after the
\* constructor, then renderString any number of times
ApiProjects ==
    [manifest : {Manifest(<<"p", "q">>, << >>)}, installed : {Flat},
     modulesDir : {NoModulesDir}, artifact : {NoArtifact}, program : {"api"},
     inputs : {{Cwd}}]

\* the projects in which a script such as test.js makes a frame and renders
\* inputs of several directories, without loading plugins itself; in some
\* the input of the subdirectory does not exist
ScriptProjects ==
    [manifest : {NoManifest}, installed : {Flat},
     modulesDir : {NoModulesDir}, artifact : {NoArtifact}, program : {"script"},
     inputs : {{Cwd, SubDir}, {Cwd}}]

\* the projects explored: every manifest with every installation and no
\* local folder; no or an unreadable manifest; every local folder with no
\* manifest and with the manifest that loads all three packages; the
\* projects without a manifest also with every artifact of an earlier run;
\* a project in which an entry file and a local script fail to load; the
\* project of the README with utils.js; in all of these the program is the
\* generate command of the CLI; then the projects of the programs that use
\* the API and of the scripts
Projects ==
    [manifest : Manifests, installed : Installs, modulesDir : {NoModulesDir},
     artifact : {NoArtifact}, program : {"generate"}, inputs : {{Cwd}}]
    \cup [manifest : {BadManifest}, installed : {Flat},
          modulesDir : {NoModulesDir}, artifact : {NoArtifact}, program : {"generate"}, inputs : {{Cwd}}]
    \cup [manifest : {Manifest(<<"q">>, <<"local_a_b", "q">>)}, installed : {Flat},
          modulesDir : ModulesDirs, artifact : {NoArtifact}, program : {"generate"}, inputs : {{Cwd}}]
    \cup [manifest : {NoManifest}, installed : {Flat},
          modulesDir : {NoModulesDir} \cup ModulesDirs, artifact : Artifacts,
          program : {"generate"}, inputs : {{Cwd}}]
    \cup [manifest : {NoManifest}, installed : {Flat},
          modulesDir : {UtilsModulesDir}, artifact : {NoArtifact},
          program : {"generate"}, inputs : {{Cwd}}]
    \cup [manifest : {Manifest(<<"p", "q">>, << >>)}, installed : {Broken},
          modulesDir : {BrokenModulesDir}, artifact : {NoArtifact},
          program : {"generate"}, inputs : {{Cwd}}]
    \cup ApiProjects
    \cup ScriptProjects

(***************************************************************************)
(* SpellFrame: registration and the bridge.                                *)
(***************************************************************************)
\* the keys are the strings the literals denote: '.*?\.json$' is .*?.json$,
\* the backslash before the dot is dropped
DefaultFileTypeHandlers ==
    << [pattern |-> ".*?.json$", handler |-> "json"],
       [pattern |-> ".*?.yaml$", handler |-> "yaml"],
       [pattern |-> ".*?.yml$", handler |-> "yaml"] >>

\* a function object: where it was defined, and its body
Callable(origin, unit, export, body) ==
    [origin |-> origin, unit |-> unit, export |-> export, body |-> body]

\* the fields the constructor sets before it registers anything; activePath
\* and lastRender are null, written "" and "null"
NewFrame ==
    [ initFn |-> << >>,
      cache |-> EmptyObject,
      cliExtensions |-> << >>,
      fileTypeHandlers |-> DefaultFileTypeHandlers,
      cleanBeforeRender |-> TRUE,
      functionContext |-> EmptyObject,
      lastRender |-> "null",
      activePath |-> "",
      native |-> EmptyObject,     \* the engine's nativeCallback table
      plugins |-> << >>,          \* the packages whose entry file loadPlugin loaded, in order
      console |-> << >> ]         \* console.log / console.warn lines

\* _generateCacheKey: a digest of JSON.stringify([functionName, ...args]);
\* the serialisation of a string followed by numbers is one-to-one
GenerateCacheKey(functionName, args) == <<functionName>> \o args

\* Object.defineProperty(this.fileTypeHandlers, pattern, ...): an existing key
\* keeps its place, a new key goes last
AddFileTypeHandler(s, pattern, handler) ==
    LET hs == s.fileTypeHandlers
        entry == [pattern |-> pattern, handler |-> handler]
    IN  [s EXCEPT !.fileTypeHandlers =
            IF \E i \in DOMAIN hs : hs[i].pattern = pattern
            THEN [i \in DOMAIN hs |-> IF hs[i].pattern = pattern THEN entry ELSE hs[i]]
            ELSE Append(hs, entry)]

\* addNativeFunction: installs the callback under name, replacing what was there
AddNativeFunction(s, name, func, parameters) ==
    [s EXCEPT !.native = Put(@, name, [func |-> func, parameters |-> parameters])]

\* the receiver, had the callable been bound to a copy of the context taken
\* when it was registered: loadPlugin merges the metadata of a package before
\* it registers its exports, the built-ins come before every plugin, the
\* local scripts after
ReceiverAtRegistration(s, func) ==
    LET upTo == CASE func.origin = "plugin" ->
                       First({i \in DOMAIN s.plugins : s.plugins[i] = func.unit})
                  [] func.origin = "local" -> Len(s.plugins)
                  [] OTHER -> 0
        ctx(i) == EntryModule(s.plugins[i]).metadata.functionContext
    IN  [k \in UNION {DOMAIN ctx(i) : i \in 1..upTo} |->
            ctx(Last({i \in 1..upTo : k \in DOMAIN ctx(i)}))[k]]

\* the receiver of func.apply(this.functionContext, args): the one context
\* object of the frame, as it is when the call is made
Receiver(s, func) == s.functionContext

\* func.apply(this.functionContext, args) for the bodies of the model:
\*   add   (a, b) => a + b              first  (x) => x
\*   noop  function () { }              boom   () => { throw ... }
\*   shout (text) => text.toUpperCase() + "!!!", which throws a TypeError
\*         for a number and for undefined
\*   sum   (a, b = 5) => a + b          pick   (a, b = [1, 2]) => a
\*   double x => x * 2
\*   envvar (name) => process.env[name] || false, with no such variable set
\*   path  () => this.activePath || process.cwd()
\*   whoami function () { return this.region }
\* the arrow functions take `this` from where they were written: in envvar
\* and path it is the frame, and the receiver passed by apply is ignored
Apply(func, s, args) ==
    CASE func.body = "add" ->
           IF Len(args) >= 2 THEN JsNumber(args[1] + args[2]) ELSE JsNaN
      [] func.body = "first" ->
           IF Len(args) >= 1 THEN JsNumber(args[1]) ELSE JsUndefined
      [] func.body = "noop" -> JsUndefined
      [] func.body = "boom" -> Thrown
      [] func.body = "shout" -> Thrown
      [] func.body = "sum" ->
           IF Len(args) >= 2 THEN JsNumber(args[1] + args[2])
           ELSE IF Len(args) = 1 THEN JsNumber(args[1] + 5) ELSE JsNaN
      [] func.body = "pick" ->
           IF Len(args) >= 1 THEN JsNumber(args[1]) ELSE JsUndefined
      [] func.body = "double" ->
           IF Len(args) >= 1 THEN JsNumber(2 * args[1]) ELSE JsNaN
      [] func.body = "envvar" -> JsFalse
      [] func.body = "whoami" ->
           LET this == Receiver(s, func)
           IN  IF "region" \in DOMAIN this THEN JsString(this["region"]) ELSE JsUndefined
      [] OTHER -> JsString(IF s.activePath # "" THEN s.activePath ELSE Cwd)

\* this._cache[key]; a missing key reads as undefined
CacheGet(cache, key) == IF key \in DOMAIN cache THEN cache[key] ELSE JsUndefined

\* the callback, had it stored what func threw as the result of the key
NativeCallbackStoresThrown(s, name, args) ==
    LET key == GenerateCacheKey(name, args)
        func == s.native[name].func
        result == Apply(func, s, args)
    IN  IF CacheGet(s.cache, key) # JsUndefined
        THEN [result |-> s.cache[key], executed |-> FALSE, cache |-> s.cache]
        ELSE [result |-> result, executed |-> TRUE, cache |-> Put(s.cache, key, result)]

\* the callback addNativeFunction hands to the engine, called with args:
\* what it returns, whether it ran func, and the cache afterwards
NativeCallback(s, name, args) ==
    LET key == GenerateCacheKey(name, args)
        func == s.native[name].func
        result == Apply(func, s, args)
    IN  IF CacheGet(s.cache, key) # JsUndefined
        THEN [result |-> s.cache[key], executed |-> FALSE, cache |-> s.cache]
        ELSE IF result = Thrown
        THEN [result |-> Thrown, executed |-> TRUE, cache |-> s.cache]
        ELSE [result |-> result, executed |-> TRUE, cache |-> Put(s.cache, key, result)]

\* Array.isArray(x) ? x : [x], pushed when the field is present
HookItems(field) == IF field.kind = "absent" THEN << >> ELSE field.items

RECURSIVE AddFileTypeHandlers(_, _)
AddFileTypeHandlers(s, handlers) ==
    IF handlers = << >> THEN s
    ELSE AddFileTypeHandlers(
            AddFileTypeHandler(s, Head(handlers).pattern, Head(handlers).handler),
            Tail(handlers))

ExtendWithModuleMetadata(s, metadata) ==
    LET s1 == AddFileTypeHandlers(s, metadata.fileTypeHandlers)
    IN  [s1 EXCEPT !.cliExtensions = @ \o HookItems(metadata.cliExtensions),
                   !.initFn = @ \o HookItems(metadata.initFn),
                   !.functionContext = ObjectAssign(@, metadata.functionContext)]

(***************************************************************************)
(* getFunctionParameterList. A source text is a list of tokens: each of    *)
(* the characters the patterns of the function look for, ( ) , = > { } / * *)
(* space and newline, is a token of its own, and a run of other characters *)
(* is one token.                                                           *)
(***************************************************************************)
\* func.toString() of the function bodies of the model:
\*   add     (a, b) => a + b
\*   first   (x) => x
\*   noop    function () { }
\*   boom    () => { throw new Error("boom") }
\*   shout   (text) => text.toUpperCase() + "!!!"
\*   sum     (a, b = 5) => a + b
\*   pick    (a, b = [1, 2]) => a
\*   double  x => x * 2
FuncToString(body) ==
    CASE body = "add" ->
           <<"(", "a", ",", " ", "b", ")", " ", "=", ">", " ", "a", " ", "+", " ", "b">>
      [] body = "first" -> <<"(", "x", ")", " ", "=", ">", " ", "x">>
      [] body = "noop" -> <<"function", " ", "(", ")", " ", "{", " ", "}">>
      [] body = "boom" ->
           <<"(", ")", " ", "=", ">", " ", "{", " ", "throw", " ", "new", " ", "Error",
             "(", "\"boom\"", ")", " ", "}">>
      [] body = "shout" ->
           <<"(", "text", ")", " ", "=", ">", " ", "text.toUpperCase", "(", ")", " ",
             "+", " ", "\"!!!\"">>
      [] body = "sum" ->
           <<"(", "a", ",", " ", "b", " ", "=", " ", "5", ")", " ", "=", ">", " ",
             "a", " ", "+", " ", "b">>
      [] body = "pick" ->
           <<"(", "a", ",", " ", "b", " ", "=", " ", "[1", ",", " ", "2]", ")", " ",
             "=", ">", " ", "a">>
      [] body = "double" -> <<"x", " ", "=", ">", " ", "x", " ", "*", " ", "2">>
      [] body = "whoami" ->
           <<"function", " ", "(", ")", " ", "{", " ", "return", " ", "this.region", " ", "}">>
      [] OTHER -> << >>

\* F(value), with the value computed once before F reads it
Then(value, F(_)) == CHOOSE result \in {F(v) : v \in {value}} : TRUE

\* text.indexOf(a + b, from), counted from 1; 0 when there is none
PairAt(text, a, b, from) ==
    First({i \in from..(Len(text) - 1) : text[i] = a /\ text[i + 1] = b})

\* .replace(/\/\*[\s\S]*?\*\//g, '')
RECURSIVE StripBlockComments(_)
StripBlockComments(text) ==
    LET open == PairAt(text, "/", "*", 1)
        close == PairAt(text, "*", "/", open + 2)
    IN  IF open = 0 THEN text
        ELSE IF close = 0 THEN text
        ELSE SubSeq(text, 1, open - 1)
                \o Then(SubSeq(text, close + 2, Len(text)), StripBlockComments)

\* .replace(/\/\/(.)*/g, ''): from // to the end of the line
RECURSIVE StripLineComments(_)
StripLineComments(text) ==
    LET start == PairAt(text, "/", "/", 1)
        newline == First({i \in start..Len(text) : text[i] = "\n"})
    IN  IF start = 0 THEN text
        ELSE IF newline = 0 THEN SubSeq(text, 1, start - 1)
        ELSE SubSeq(text, 1, start - 1)
                \o Then(SubSeq(text, newline, Len(text)), StripLineComments)

\* .replace(/{[\s\S]*}/, ''): from the first { to the last }
StripBody(text) ==
    LET open == First({i \in DOMAIN text : text[i] = "{"})
        close == Last({i \in DOMAIN text : text[i] = "}"})
    IN  IF open = 0 \/ close < open THEN text
        ELSE SubSeq(text, 1, open - 1) \o SubSeq(text, close + 1, Len(text))

\* .replace(/=>/g, '')
RECURSIVE StripArrows(_)
StripArrows(text) ==
    LET at == PairAt(text, "=", ">", 1)
    IN  IF at = 0 THEN text
        ELSE SubSeq(text, 1, at - 1)
                \o Then(SubSeq(text, at + 2, Len(text)), StripArrows)

\* .trim()
Trim(text) ==
    LET inked == {i \in DOMAIN text : text[i] \notin {" ", "\n"}}
    IN  IF inked = {} THEN << >> ELSE SubSeq(text, First(inked), Last(inked))

\* the string the tokens spell
RECURSIVE Join(_)
Join(text) ==
    IF text = << >> THEN "" ELSE Head(text) \o Then(Tail(text), Join)

\* .split(",")
RECURSIVE Split(_)
Split(text) ==
    LET at == First({i \in DOMAIN text : text[i] = ","})
    IN  IF at = 0 THEN <<text>>
        ELSE <<SubSeq(text, 1, at - 1)>> \o Then(SubSeq(text, at + 1, Len(text)), Split)

\* param.replace(/=[\s\S]*/g, '').trim()
ParameterName(param) ==
    LET at == First({i \in DOMAIN param : param[i] = "="})
    IN  Then(Then(IF at = 0 THEN param ELSE SubSeq(param, 1, at - 1), Trim), Join)

\* getFunctionParameterList from line 27 on, funcStr being the stripped text;
\* open is paramStartIndex and close - 1 is paramEndIndex
ParametersIn(funcStr) ==
    LET open == First({i \in DOMAIN funcStr : funcStr[i] = "("})
        close == Last({i \in DOMAIN funcStr : funcStr[i] = ")"})
        arrow == PairAt(funcStr, "=", ">", 1)
        potentialSingleArg ==
            Then(IF arrow = 0 THEN funcStr ELSE SubSeq(funcStr, 1, arrow - 1), Trim)
        paramsString == SubSeq(funcStr, open + 1, close - 1)
        Names(params) ==
            SelectSeq([i \in DOMAIN params |-> Then(params[i], ParameterName)],
                      LAMBDA n : n # "")
    IN  IF open = 0 \/ close = 0 \/ open >= close - 1
        THEN IF /\ potentialSingleArg # << >>
                /\ "(" \notin Range(potentialSingleArg)
                /\ ")" \notin Range(potentialSingleArg)
             THEN <<Then(potentialSingleArg, Join)>>
             ELSE << >>
        ELSE IF Then(paramsString, Trim) = << >> THEN << >>
        ELSE Then(Then(paramsString, Split), Names)

\* getFunctionParameterList(func), func being the function with that body
GetFunctionParameterList(body) ==
    Then(Then(Then(Then(Then(Then(FuncToString(body),
        StripBlockComments), StripLineComments), StripBody), StripArrows), Trim),
        ParametersIn)

\* [func, ...params] for an array, getFunctionParameterList for a function
ExportParams(e) ==
    IF e.kind = "array" THEN e.params ELSE GetFunctionParameterList(e.body)

(***************************************************************************)
(* Plugin discovery.                                                       *)
(***************************************************************************)
\* path.join(depDir, depPkg.main || 'index.js'), depDir being where
\* <depName>/package.json resolved
MainPath(depName) ==
    "node_modules/" \o depName \o "/" \o
        (IF project.installed[depName].main = "" THEN "index.js"
         ELSE project.installed[depName].main)

\* the installed package whose entry file is at jsMainPath, if any
PackagesAt(jsMainPath) ==
    {p \in Packages : project.installed[p].resolves /\ MainPath(p) = jsMainPath}

ExistsSync(jsMainPath) ==
    \E p \in PackagesAt(jsMainPath) : project.installed[p].entry # "missing"

RequireThrows(jsMainPath) ==
    \E p \in PackagesAt(jsMainPath) : project.installed[p].entry = "throws"

Require(jsMainPath) == EntryModule(CHOOSE p \in PackagesAt(jsMainPath) : TRUE)

Warn(s, text) == [s EXCEPT !.console = Append(@, [level |-> "warn", text |-> text])]
Log(s, text) == [s EXCEPT !.console = Append(@, [level |-> "log", text |-> text])]

\* the name, had loadPlugin registered the export name as it is
PluginUniqueIdUnprefixed(packageName, key) == key

\* the name loadPlugin registers an export under
PluginUniqueId(packageName, key) == packageName \o ":" \o key

\* the Object.keys(moduleExports).forEach of loadPlugin
RECURSIVE RegisterPluginExports(_, _, _)
RegisterPluginExports(s, packageName, exports) ==
    IF exports = << >> THEN s
    ELSE LET e == Head(exports)
             rest == Tail(exports)
         IN  IF e.name = "_spellcraft_metadata" \/ e.kind = "other"
             THEN RegisterPluginExports(s, packageName, rest)
             ELSE RegisterPluginExports(
                     AddNativeFunction(s, PluginUniqueId(packageName, e.name),
                                       Callable("plugin", packageName, e.name, e.body),
                                       ExportParams(e)),
                     packageName, rest)

LoadPlugin(s, packageName, jsMainPath) ==
    IF jsMainPath = "" \/ ~ExistsSync(jsMainPath) THEN s
    ELSE IF RequireThrows(jsMainPath)
    THEN Warn(s, "[!] Failed to load plugin " \o packageName)
    ELSE LET moduleExports == Require(jsMainPath)
             s1 == IF moduleExports.metadata.present
                   THEN ExtendWithModuleMetadata(s, moduleExports.metadata)
                   ELSE s
             s2 == RegisterPluginExports(s1, packageName, moduleExports.exports)
         IN  [s2 EXCEPT !.plugins = Append(@, packageName)]

\* the keys, had the development dependencies been left out
MergedKeysWithoutDev(dependencies, devDependencies) == dependencies

\* the number a property name stands for when it is an array index, else -1
IndexValue(name) == IF name = "7" THEN 7 ELSE -1

\* Object.keys({ ...pkg.dependencies, ...pkg.devDependencies }): the names
\* that are array indices in ascending order, then the other names in the
\* order they were first inserted
MergedKeys(dependencies, devDependencies) ==
    LET inserted ==
            dependencies \o SelectSeq(devDependencies, LAMBDA d : d \notin Range(dependencies))
    IN  SortSeq(SelectSeq(inserted, LAMBDA k : IndexValue(k) >= 0),
                LAMBDA a, b : IndexValue(a) < IndexValue(b))
            \o SelectSeq(inserted, LAMBDA k : IndexValue(k) < 0)

\* the body of the forEach, had it loaded a package without looking for the
\* spellcraft metadata
LoadDependencyIgnoresMarker(s, depName) ==
    IF ~project.installed[depName].resolves
    THEN Warn(s, "Debug: Could not load potential plugin " \o depName)
    ELSE LoadPlugin(s, depName, MainPath(depName))

\* the body of Object.keys(deps).forEach, for one depName
LoadDependency(s, depName) ==
    IF ~project.installed[depName].resolves
    THEN Warn(s, "Debug: Could not load potential plugin " \o depName)
    ELSE IF project.installed[depName].marker
    THEN LoadPlugin(s, depName, MainPath(depName))
    ELSE s

\* the forEach, had a dependency that fails to load ended it
RECURSIVE LoadDependenciesUntilFailure(_, _)
LoadDependenciesUntilFailure(s, depNames) ==
    IF depNames = << >> THEN s
    ELSE IF \/ ~project.installed[Head(depNames)].resolves
            \/ /\ project.installed[Head(depNames)].marker
               /\ project.installed[Head(depNames)].entry = "throws"
    THEN LoadDependency(s, Head(depNames))
    ELSE LoadDependenciesUntilFailure(LoadDependency(s, Head(depNames)), Tail(depNames))

RECURSIVE LoadDependencies(_, _)
LoadDependencies(s, depNames) ==
    IF depNames = << >> THEN s
    ELSE LoadDependencies(LoadDependency(s, Head(depNames)), Tail(depNames))

LoadPluginsFromDependencies(s) ==
    IF ~project.manifest.present THEN s
    ELSE IF ~project.manifest.parses THEN s
    ELSE LoadDependencies(s, MergedKeys(project.manifest.dependencies,
                                        project.manifest.devDependencies))

(***************************************************************************)
(* Local scripts and the aggregator file.                                  *)
(***************************************************************************)
\* path.basename(file, '.js')
Basename(file) == IF file.ext = ".js" THEN file.stem ELSE FileName(file)

\* the name loadLocalMagicModules registers an export under
LocalUniqueId(moduleName, funcName) == "local_" \o moduleName \o "_" \o funcName

\* the Object.keys(moduleExports).forEach of loadLocalMagicModules;
\* acc = [sf, fileMethods]
RECURSIVE RegisterLocalExports(_, _, _, _)
RegisterLocalExports(acc, file, moduleName, exports) ==
    IF exports = << >> THEN acc
    ELSE LET e == Head(exports)
             rest == Tail(exports)
             uniqueId == LocalUniqueId(moduleName, e.name)
         IN  IF e.name = "_spellcraft_metadata" \/ e.kind = "other"
             THEN RegisterLocalExports(acc, file, moduleName, rest)
             ELSE RegisterLocalExports(
                     [sf |-> AddNativeFunction(acc.sf, uniqueId,
                                Callable("local", FileName(file), e.name, e.body),
                                ExportParams(e)),
                      fileMethods |-> Append(acc.fileMethods,
                                Wrapper(e.name, ExportParams(e), uniqueId))],
                     file, moduleName, rest)

\* the body of jsFiles.forEach, for one file; acc = [sf, jsonnetContentParts]
LoadLocalFile(acc, file) ==
    LET moduleName == Basename(file)
        moduleExports == LocalModule(file)
    IN  IF ~moduleExports.loads
        THEN [acc EXCEPT !.sf = Warn(@, "[!] Error loading local module " \o FileName(file))]
        ELSE LET r == RegisterLocalExports([sf |-> acc.sf, fileMethods |-> << >>],
                                           file, moduleName, moduleExports.exports)
             IN  [sf |-> Log(r.sf, "[+] Loaded from " \o FileName(file)),
                  jsonnetContentParts |->
                     IF Len(r.fileMethods) > 0
                     THEN Append(acc.jsonnetContentParts,
                                 [moduleName |-> moduleName, methods |-> r.fileMethods])
                     ELSE acc.jsonnetContentParts]

RECURSIVE LoadLocalFiles(_, _)
LoadLocalFiles(acc, jsFiles) ==
    IF jsFiles = << >> THEN acc
    ELSE LoadLocalFiles(LoadLocalFile(acc, Head(jsFiles)), Tail(jsFiles))

\* loadLocalMagicModules, had it left the aggregator file alone when the
\* folder is missing
LoadLocalMagicModulesKeepsFile(s, aggregateFile) ==
    IF ~project.modulesDir.present
    THEN [sf |-> s, aggregate |-> aggregateFile]
    ELSE LET jsFiles == SelectSeq(project.modulesDir.files, LAMBDA f : f.ext = ".js")
             r == LoadLocalFiles([sf |-> s, jsonnetContentParts |-> << >>], jsFiles)
         IN  [sf |-> r.sf, aggregate |-> Artifact(r.jsonnetContentParts)]

\* loadLocalMagicModules, had it added its namespaces to the file it found
LoadLocalMagicModulesAppends(s, aggregateFile) ==
    IF ~project.modulesDir.present
    THEN [sf |-> s, aggregate |-> NoArtifact]
    ELSE LET jsFiles == SelectSeq(project.modulesDir.files, LAMBDA f : f.ext = ".js")
             r == LoadLocalFiles([sf |-> s, jsonnetContentParts |-> << >>], jsFiles)
         IN  [sf |-> r.sf,
              aggregate |-> Artifact(aggregateFile.content \o r.jsonnetContentParts)]

\* loadLocalMagicModules: the frame and the aggregator file afterwards;
\* aggregateFile is the file as it is found (unlinkSync when the folder is
\* missing, writeFileSync of the whole content otherwise)
LoadLocalMagicModules(s, aggregateFile) ==
    IF ~project.modulesDir.present
    THEN [sf |-> s, aggregate |-> NoArtifact]
    ELSE LET jsFiles == SelectSeq(project.modulesDir.files, LAMBDA f : f.ext = ".js")
             r == LoadLocalFiles([sf |-> s, jsonnetContentParts |-> << >>], jsFiles)
         IN  [sf |-> r.sf, aggregate |-> Artifact(r.jsonnetContentParts)]

\* the constructor, in its order: built-ins, plugins, local scripts
Constructor(aggregateFile) ==
    LET s1 == AddNativeFunction(NewFrame, "envvar",
                    Callable("builtin", "", "envvar", "envvar"), <<"name">>)
        s2 == AddNativeFunction(s1, "path",
                    Callable("builtin", "", "path", "path"), << >>)
        s3 == LoadPluginsFromDependencies(s2)
    IN  LoadLocalMagicModules(s3, aggregateFile)

(***************************************************************************)
(* The process run: new SpellFrame(), loadPlugin calls by the host         *)
(* program, then init(), render() as the generate command runs them, with  *)
(* the engine calling back during evaluation.                              *)
(***************************************************************************)
NoCall ==
    [via |-> "none", name |-> "", moduleName |-> "", funcName |-> "", args |-> << >>,
     func |-> Callable("", "", "", ""), result |-> JsUndefined, executed |-> FALSE,
     direct |-> JsUndefined, receiver |-> EmptyObject]

\* an Error object with that message
Error(message) == [message |-> message]
NoError == Error("none")

\* what the callables of the model throw
ThrownError(func) ==
    IF func.body = "boom" THEN Error("boom")
    ELSE Error("text.toUpperCase is not a function")

\* the engine rejects a source it cannot parse before it evaluates anything
StaticError == Error("STATIC ERROR: unexpected end of file")

\* no render or renderString call has been made yet
NoRender ==
    [op |-> "none", dir |-> "", status |-> "none", cause |-> NoError, message |-> "",
     returned |-> "none"]

\* the message render and renderString give the Error they throw, had it
\* named no cause
RenderErrorMessageWithoutCause(e) == "Jsonnet Evaluation Error"

\* `Jsonnet Evaluation Error: ${e.message || e}`; String(e) of an Error
\* without a message is "Error"
RenderErrorMessage(e) ==
    "Jsonnet Evaluation Error: " \o (IF e.message # "" THEN e.message ELSE "Error")

\* the Error render throws for a file that does not exist
MissingInput(dir) ==
    Error("SpellCraft Render Error: Input file " \o dir \o "/main.jsonnet does not exist.")

\* the object a successful evaluation of that input yields
Evaluated(op, dir) == op \o " " \o dir

\* the keys of the object a successful evaluation of the input yields
RenderedFiles == {"main.json"}

\* new RegExp(pattern, "i").test(f) for the patterns and file names of the
\* model: .*?.json$ matches a name that ends in json after at least one
\* other character, whatever that character is
RegexTest(pattern, f) ==
    \/ pattern = ".*?.json$" /\ f \in {"main.json", "old.json", "geojson"}
    \/ pattern = ".*?.tf$" /\ f \in {"main.tf"}

\* the names an entry of the render directory can have, in the order of
\* their bytes
RenderDirNames == <<"geojson", "main.json", "main.tf", "notes.txt", "old.json">>

\* the entry is a directory: geojson is one, the others are regular files
IsDirectory(f) == f = "geojson"

\* what the render directory of a script holds before the script runs
RenderDirs == {{}, {"notes.txt", "old.json"}, {"geojson", "notes.txt", "old.json"}}

\* fs.readdirSync(this.renderPath): the names, sorted
ReaddirSync(dir) == SelectSeq(RenderDirNames, LAMBDA f : f \in dir)

\* .forEach(f => fs.unlinkSync(path.join(this.renderPath, f))): unlinkSync
\* throws for a directory, and forEach ends there
RECURSIVE UnlinkEach(_, _)
UnlinkEach(dir, names) ==
    IF names = << >> THEN [dir |-> dir, threw |-> FALSE]
    ELSE IF IsDirectory(Head(names)) THEN [dir |-> dir, threw |-> TRUE]
    ELSE UnlinkEach(dir \ {Head(names)}, Tail(names))

\* the cleaning of write: for each pattern in the order of the handler
\* table, the matching names of the directory are unlinked; the one try
\* around all of it ends the cleaning at the first unlinkSync that throws
RECURSIVE CleanRenderPath(_, _)
CleanRenderPath(dir, patterns) ==
    IF patterns = << >> THEN dir
    ELSE LET r == UnlinkEach(dir, SelectSeq(ReaddirSync(dir),
                                            LAMBDA f : RegexTest(Head(patterns), f)))
         IN  IF r.threw THEN r.dir ELSE CleanRenderPath(r.dir, Tail(patterns))

\* the options a program passes to the constructor
Options == [cleanBeforeRender : BOOLEAN]

Init ==
    /\ project \in Projects
    /\ aggregate = project.artifact
    /\ sf = NewFrame
    /\ pc = "start"
    /\ calls = EmptyObject
    /\ lastCall = NoCall
    /\ hookLog = << >>
    /\ made = [calls |-> 0, loads |-> 0]
    /\ outcome = NoRender
    /\ renderDir \in (IF project.program = "script" THEN RenderDirs ELSE {{}})

\* const spellframe = new SpellFrame(options); the CLI and a program that
\* passes no options get the default, cleanBeforeRender: true
Construct ==
    /\ pc = "start"
    /\ \E options \in Options :
          /\ project.program # "script" => options.cleanBeforeRender
          /\ LET r == Constructor(aggregate)
             IN  /\ sf' = [r.sf EXCEPT !.cleanBeforeRender = options.cleanBeforeRender]
                 /\ aggregate' = r.aggregate
    /\ pc' = "setup"
    /\ UNCHANGED <<project, calls, lastCall, hookLog, made, outcome, renderDir>>

\* the packages a program that uses the API loads itself
HostLoads == {"p", "q", "local_a_b"}

\* spellframe.loadPlugin(packageName, jsMainPath), called by a program that
\* uses the API, before anything is rendered
LoadPluginCall(packageName) ==
    /\ pc = "setup"
    /\ project.program = "api"
    /\ made.loads < MaxReloads
    /\ sf' = LoadPlugin(sf, packageName, MainPath(packageName))
    /\ made' = [made EXCEPT !.loads = @ + 1]
    /\ UNCHANGED <<project, aggregate, pc, calls, lastCall, hookLog, outcome, renderDir>>

\* a hook of the init queue is running
HookRunning == hookLog # << >> /\ hookLog[Len(hookLog)].state = "running"

\* init(), had it called the next entry without awaiting the one before
InitHookStartUnawaited ==
    /\ pc \in {"setup", "init"}
    /\ Len(hookLog) < Len(sf.initFn)
    /\ hookLog' = Append(hookLog, [hook |-> sf.initFn[Len(hookLog) + 1], state |-> "running"])
    /\ pc' = "init"
    /\ UNCHANGED <<project, aggregate, sf, calls, lastCall, made, outcome, renderDir>>

\* init(): step.call() of the next entry of this.initFn
InitHookStart ==
    /\ pc \in {"setup", "init"}
    /\ ~HookRunning
    /\ Len(hookLog) < Len(sf.initFn)
    /\ hookLog' = Append(hookLog, [hook |-> sf.initFn[Len(hookLog) + 1], state |-> "running"])
    /\ pc' = "init"
    /\ UNCHANGED <<project, aggregate, sf, calls, lastCall, made, outcome, renderDir>>

\* init(): the awaited step resolved
InitHookCompletes ==
    /\ pc = "init"
    /\ HookRunning
    /\ hookLog' = [hookLog EXCEPT ![Len(hookLog)].state = "completed"]
    /\ UNCHANGED <<project, aggregate, sf, pc, calls, lastCall, made, outcome, renderDir>>

\* init(), had it caught what a step throws and gone on
InitHookFailsCaught ==
    /\ pc = "init"
    /\ HookRunning
    /\ hookLog' = [hookLog EXCEPT ![Len(hookLog)].state = "failed"]
    /\ UNCHANGED <<project, aggregate, sf, pc, calls, lastCall, made, outcome, renderDir>>

\* init(): the awaited step threw or rejected, and init() rejects
InitHookFails ==
    /\ pc = "init"
    /\ HookRunning
    /\ hookLog' = [hookLog EXCEPT ![Len(hookLog)].state = "failed"]
    /\ pc' = "failed"
    /\ UNCHANGED <<project, aggregate, sf, calls, lastCall, made, outcome, renderDir>>

\* init(): the for loop is through, init() resolves
InitReturn ==
    /\ pc \in {"setup", "init"}
    /\ ~HookRunning
    /\ Len(hookLog) = Len(sf.initFn)
    /\ pc' = "idle"
    /\ UNCHANGED <<project, aggregate, sf, calls, lastCall, hookLog, made, outcome, renderDir>>

\* render(file), the file being main.jsonnet in dir, or renderString(snippet),
\* up to the engine's evaluation; the generate command renders once, a file
RenderBegin(op, dir, source) ==
    /\ pc = "idle"
    /\ project.program = "generate" => (op = "render" /\ outcome.op = "none")
    /\ project.program = "api" => op = "renderString"
    /\ op = "renderString" => dir = Cwd
    /\ IF op = "render" /\ dir \notin project.inputs
       THEN /\ source = "valid"
            /\ outcome' = [op |-> op, dir |-> dir, status |-> "rejected",
                           cause |-> MissingInput(dir),
                           message |-> MissingInput(dir).message, returned |-> "none"]
            /\ pc' = IF project.program = "generate" THEN "failed" ELSE "idle"
            /\ UNCHANGED sf
       ELSE /\ sf' = [sf EXCEPT !.activePath = dir]
            /\ outcome' = [op |-> op, dir |-> dir, status |-> "pending",
                           cause |-> IF source = "valid" THEN NoError ELSE StaticError,
                           message |-> "", returned |-> "none"]
            /\ pc' = IF source = "valid" THEN "evaluating" ELSE "aborting"
    /\ UNCHANGED <<project, aggregate, calls, lastCall, hookLog, made, renderDir>>

\* the engine calls the callback registered under name; direct is what
\* func.apply(this.functionContext, args) yields at that moment
Invoke(via, moduleName, funcName, name, args) ==
    LET r == NativeCallback(sf, name, args)
        func == sf.native[name].func
        run == [func |-> func, key |-> GenerateCacheKey(name, args)]
    IN  /\ made.calls < MaxCalls
        /\ sf' = [sf EXCEPT !.cache = r.cache]
        /\ calls' = IF r.executed
                    THEN Put(calls, run, (IF run \in DOMAIN calls THEN calls[run] ELSE 0) + 1)
                    ELSE calls
        /\ lastCall' = [via |-> via, name |-> name, moduleName |-> moduleName,
                        funcName |-> funcName, args |-> args, func |-> func,
                        result |-> r.result, executed |-> r.executed,
                        direct |-> Apply(func, sf, args),
                        receiver |-> Receiver(sf, func)]
        /\ made' = [made EXCEPT !.calls = @ + 1]
        /\ pc' = IF r.result = Thrown THEN "aborting" ELSE "evaluating"
        /\ outcome' = IF r.result = Thrown
                      THEN [outcome EXCEPT !.cause = ThrownError(func)]
                      ELSE outcome
        /\ UNCHANGED <<project, aggregate, hookLog, renderDir>>

\* std.native(name)(args) in the evaluated source
NativeCall(name, args) ==
    /\ pc = "evaluating"
    /\ name \in DOMAIN sf.native
    /\ Invoke("native", "", "", name, args)

\* modules.<moduleName>.<funcName>(args) with modules = import 'modules':
\* the wrapper passes its parameters on to std.native(uniqueId)
ModulesCall(i, j, args) ==
    /\ pc = "evaluating"
    /\ aggregate.exists
    /\ LET part == aggregate.content[i]
           w == part.methods[j]
       IN  /\ Len(args) = Len(w.params)
           /\ w.native \in DOMAIN sf.native
           /\ Invoke("modules", part.moduleName, w.funcName, w.native, args)

\* the evaluation resolved: this.lastRender = JSON.parse(...); return it
RenderEnd ==
    /\ pc = "evaluating"
    /\ sf' = [sf EXCEPT !.lastRender = Evaluated(outcome.op, outcome.dir)]
    /\ outcome' = [outcome EXCEPT !.status = "resolved",
                                  !.returned = Evaluated(outcome.op, outcome.dir)]
    /\ pc' = IF project.program = "generate" THEN "rendered" ELSE "idle"
    /\ UNCHANGED <<project, aggregate, calls, lastCall, hookLog, made, renderDir>>

\* render, had it reset lastRender when the evaluation rejects
RenderFailClearsLastRender ==
    /\ pc = "aborting"
    /\ sf' = [sf EXCEPT !.lastRender = "null"]
    /\ outcome' = [outcome EXCEPT !.status = "rejected",
                                  !.message = RenderErrorMessage(outcome.cause)]
    /\ pc' = IF project.program = "generate" THEN "failed" ELSE "idle"
    /\ UNCHANGED <<project, aggregate, calls, lastCall, hookLog, made, renderDir>>

\* the evaluation rejected with e: throw new Error(...); the generate command
\* ends there, a program that uses the API catches the error
RenderFail ==
    /\ pc = "aborting"
    /\ outcome' = [outcome EXCEPT !.status = "rejected",
                                  !.message = RenderErrorMessage(outcome.cause)]
    /\ pc' = IF project.program = "generate" THEN "failed" ELSE "idle"
    /\ UNCHANGED <<project, aggregate, sf, calls, lastCall, hookLog, made, renderDir>>

\* write(): nothing without a rendered object; else the directory is cleaned
\* (cleanBeforeRender) and then the outputs are written, none of which has
\* the name of a directory
Write ==
    /\ pc = (IF project.program = "generate" THEN "rendered" ELSE "idle")
    /\ project.program # "api"
    /\ renderDir' =
          IF sf.lastRender = "null" THEN renderDir
          ELSE LET patterns == [i \in DOMAIN sf.fileTypeHandlers |->
                                    sf.fileTypeHandlers[i].pattern]
                   kept == IF sf.cleanBeforeRender
                           THEN CleanRenderPath(renderDir, patterns)
                           ELSE renderDir
               IN  kept \cup RenderedFiles
    /\ pc' = IF project.program = "generate" THEN "done" ELSE "idle"
    /\ UNCHANGED <<project, aggregate, sf, calls, lastCall, hookLog, made, outcome>>

Next ==
    \/ Construct
    \/ \E packageName \in HostLoads : LoadPluginCall(packageName)
    \/ InitHookStart
    \/ InitHookCompletes
    \/ InitHookFails
    \/ InitReturn
    \/ \E op \in {"render", "renderString"}, dir \in {Cwd, SubDir},
          source \in {"valid", "invalid"} :
             RenderBegin(op, dir, source)
    \/ \E name \in DOMAIN sf.native, args \in ArgLists : NativeCall(name, args)
    \/ \E i \in DOMAIN aggregate.content :
          \E j \in DOMAIN aggregate.content[i].methods, args \in ArgLists :
             ModulesCall(i, j, args)
    \/ RenderEnd
    \/ RenderFail
    \/ Write

Spec == Init /\ [][Next]_vars

(***************************************************************************)
(* What the properties below speak about.                                  *)
(***************************************************************************)
\* the exports loadPlugin and loadLocalMagicModules register
Registered(exports) ==
    {e \in Range(exports) : e.name # "_spellcraft_metadata" /\ e.kind # "other"}

\* the plugins whose entry file was loaded
LoadedPlugins == Range(sf.plugins)

\* the local scripts that were loaded
LocalScripts ==
    IF project.modulesDir.present
    THEN {f \in Range(project.modulesDir.files) : f.ext = ".js" /\ LocalModule(f).loads}
    ELSE {}

\* the qualified names given to the exports of the loaded plugins
PluginIds ==
    UNION { {PluginUniqueId(p, e.name) : e \in Registered(EntryModule(p).exports)} :
            p \in LoadedPlugins }

\* the qualified names given to the exports of the local scripts
LocalIds ==
    UNION { {LocalUniqueId(Basename(f), e.name) : e \in Registered(LocalModule(f).exports)} :
            f \in LocalScripts }

\* the wrappers of the aggregator file, with their namespace
Wrappers ==
    UNION { {[moduleName |-> aggregate.content[i].moduleName,
              wrapper |-> aggregate.content[i].methods[j]] :
                j \in DOMAIN aggregate.content[i].methods} :
            i \in DOMAIN aggregate.content }

(***************************************************************************)
(* C1. The underlying callable runs at most once per (qualified name,      *)
(* serialized arguments) pair in one process run: after two invocations    *)
(* with identical arguments its call counter reads 1.                      *)
(***************************************************************************)
C1_AtMostOncePerKey == \A run \in DOMAIN calls : calls[run] <= 1

(***************************************************************************)
(* C2. An invocation through the bridge returns what calling the           *)
(* underlying callable directly with the same arguments returns, whatever  *)
(* parameter names, and however many, were registered for it.              *)
(***************************************************************************)
C2_BridgeReturnsDirectResult ==
    lastCall.via # "none" => lastCall.result = lastCall.direct

C4_LocalNeverCollidesWithPlugin ==
    pc # "start" => LocalIds \cap PluginIds = {}

(***************************************************************************)
(* C5. Two exports of local scripts that differ in file or in export name  *)
(* are never registered under the same qualified name.                     *)
(***************************************************************************)
C5_LocalNamesUnique ==
    pc # "start" =>
    \A f1 \in LocalScripts, f2 \in LocalScripts :
        \A e1 \in Registered(LocalModule(f1).exports),
           e2 \in Registered(LocalModule(f2).exports) :
            (f1 # f2 \/ e1.name # e2.name) =>
                LocalUniqueId(Basename(f1), e1.name) # LocalUniqueId(Basename(f2), e2.name)

(***************************************************************************)
(* The dependency graph the manifests declare.                             *)
(***************************************************************************)
\* a package that resolves and carries the spellcraft marker
IsExtension(p) == project.installed[p].resolves /\ project.installed[p].marker

\* an extension whose entry file loads
IsLoadable(p) == IsExtension(p) /\ project.installed[p].entry = "ok"

\* what the root manifest declares, development dependencies included
RootDependencies ==
    IF project.manifest.present /\ project.manifest.parses
    THEN Range(MergedKeys(project.manifest.dependencies, project.manifest.devDependencies))
    ELSE {}

\* what the extensions among ps declare
DeclaredBy(ps) ==
    UNION {Range(project.installed[p].dependencies) : p \in {x \in ps : IsExtension(x)}}

\* ps and everything n steps of declared dependencies away from it
RECURSIVE Closure(_, _)
Closure(ps, n) == IF n = 0 THEN ps ELSE Closure(ps \cup DeclaredBy(ps), n - 1)

\* reachable from the root manifest through extensions
Reachable == Closure(RootDependencies, Cardinality(Packages))

\* p depends on itself through a chain of declared dependencies
OnCycle(p) == p \in Closure(DeclaredBy({p}), Cardinality(Packages))

\* X is required by a loaded plugin and is not loaded
UnmetRequirements ==
    {x \in Packages :
        \E p \in LoadedPlugins : x \in project.installed[p].requires /\ x \notin LoadedPlugins}

(***************************************************************************)
(* C6. If a loaded plugin requires a plugin that is not loaded when        *)
(* discovery finishes, initialization fails and nothing is evaluated: the  *)
(* process never gets to setup, init or render.                            *)
(***************************************************************************)
C6_UnmetRequirementFails ==
    UnmetRequirements # {} => pc \notin {"setup", "idle", "evaluating", "aborting"}

(***************************************************************************)
(* C7. When the constructor returns, every extension reachable from the    *)
(* root manifest through declared dependencies has been loaded exactly     *)
(* once.                                                                   *)
(***************************************************************************)
C7_ReachableLoadedOnce ==
    (pc = "setup" /\ made.loads = 0) =>
        \A p \in Reachable : IsLoadable(p) => Count(sf.plugins, p) = 1

(***************************************************************************)
(* C8. Discovery terminates, also on cyclic graphs, and every extension on *)
(* a cycle that is reachable from the root has been loaded exactly once.   *)
(***************************************************************************)
C8_CycleLoadedOnce ==
    /\ pc = "start" => ENABLED Construct
    /\ (pc = "setup" /\ made.loads = 0) =>
          \A p \in Reachable : (IsLoadable(p) /\ OnCycle(p)) => Count(sf.plugins, p) = 1

(***************************************************************************)
(* C9. loadPlugin on a plugin that is already loaded changes nothing: the  *)
(* registered functions, the init-hook queue, the CLI-hook queue, the      *)
(* file-type handlers and the shared context stay as they were.            *)
(***************************************************************************)
C9_ReloadIsNoOp ==
    [][\A p \in HostLoads :
          (LoadPluginCall(p) /\ p \in LoadedPlugins) =>
              /\ sf'.native = sf.native
              /\ sf'.initFn = sf.initFn
              /\ sf'.cliExtensions = sf.cliExtensions
              /\ sf'.fileTypeHandlers = sf.fileTypeHandlers
              /\ sf'.functionContext = sf.functionContext]_vars

(***************************************************************************)
(* C10. For every loaded local script F and every function export E of F   *)
(* the aggregator has a member <namespace of F>.E that forwards to the     *)
(* native function registered for exactly that (F, E), so a call through   *)
(* modules.<namespace>.E gives what F's E gives; and no member forwards to *)
(* a name that is not registered.                                          *)
(***************************************************************************)
C10_AggregatorForwardsToOwnExport ==
    pc # "start" =>
    /\ \A f \in LocalScripts :
          \A e \in Registered(LocalModule(f).exports) :
              \E w \in Wrappers :
                  /\ w.moduleName = Basename(f)
                  /\ w.wrapper.funcName = e.name
                  /\ w.wrapper.native \in DOMAIN sf.native
                  /\ sf.native[w.wrapper.native].func =
                        Callable("local", FileName(f), e.name, e.body)
    /\ \A w \in Wrappers : w.wrapper.native \in DOMAIN sf.native
    /\ lastCall.via = "modules" =>
          /\ lastCall.func.origin = "local"
          /\ lastCall.func.unit = lastCall.moduleName \o ".js"
          /\ lastCall.func.export = lastCall.funcName
          /\ lastCall.result = lastCall.direct

(***************************************************************************)
(* C11. If the spellcraft_modules folder does not exist when the           *)
(* constructor runs, the aggregator file does not exist afterwards,        *)
(* whatever file an earlier run left behind.                               *)
(***************************************************************************)
C11_NoFolderNoArtifact ==
    (pc # "start" /\ ~project.modulesDir.present) => ~aggregate.exists

\* an earlier run left a file, the folder is gone, and the file is gone too
C11_Witness ==
    /\ pc # "start"
    /\ ~project.modulesDir.present
    /\ project.artifact.exists
    /\ ~aggregate.exists

\* the aggregator file the constructor writes for the folder when it finds
\* no earlier file
FreshArtifact == LoadLocalMagicModules(NewFrame, NoArtifact).aggregate

(***************************************************************************)
(* C12. When the spellcraft_modules folder exists, the aggregator file     *)
(* after the constructor depends on the scripts in the folder only: when   *)
(* the constructor has returned it is the file a run that found no earlier *)
(* file writes, and from then on each of its namespaces and wrappers comes *)
(* from a script and an export of the current folder.                      *)
(***************************************************************************)
C12_ArtifactRewrittenInFull ==
    (pc # "start" /\ project.modulesDir.present) =>
        /\ pc = "setup" => aggregate = FreshArtifact
        /\ aggregate.exists
        /\ \A w \in Wrappers :
              \E f \in LocalScripts :
                  /\ w.moduleName = Basename(f)
                  /\ \E e \in Registered(LocalModule(f).exports) :
                        /\ w.wrapper.funcName = e.name
                        /\ w.wrapper.native = LocalUniqueId(Basename(f), e.name)

\* an earlier run left namespace a with the wrappers gone and b_c; the folder
\* holds a.js, and the new file has namespace a without gone
C12_Witness ==
    /\ pc # "start"
    /\ project.modulesDir.present
    /\ project.artifact.exists
    /\ \E i \in DOMAIN project.artifact.content :
          /\ project.artifact.content[i].moduleName = "a"
          /\ \E j \in DOMAIN project.artifact.content[i].methods :
                project.artifact.content[i].methods[j].funcName = "gone"
    /\ \E w \in Wrappers : w.moduleName = "a" /\ w.wrapper.funcName = "b_c"
    /\ \A w \in Wrappers : w.wrapper.funcName # "gone"

\* the console holds a line of that level and text
Logged(level, text) == \E i \in DOMAIN sf.console : sf.console[i] = [level |-> level, text |-> text]

\* the .js files of the folder, loading or not
JsFiles ==
    IF project.modulesDir.present
    THEN {f \in Range(project.modulesDir.files) : f.ext = ".js"}
    ELSE {}

(***************************************************************************)
(* C13. A declared dependency that does not resolve, an extension whose    *)
(* entry file throws and a local script that fails to load are skipped     *)
(* with a warning while every other declared dependency and local script   *)
(* is processed: each loadable root dependency is loaded once, each        *)
(* loadable script is registered and logged, and the constructor returns.  *)
(***************************************************************************)
C13_FailuresSkipped ==
    /\ pc = "start" => ENABLED Construct
    /\ (pc = "setup" /\ made.loads = 0) =>
          /\ \A d \in RootDependencies :
                /\ IsLoadable(d) => Count(sf.plugins, d) = 1
                /\ ~project.installed[d].resolves =>
                      Logged("warn", "Debug: Could not load potential plugin " \o d)
                /\ (IsExtension(d) /\ project.installed[d].entry = "throws") =>
                      Logged("warn", "[!] Failed to load plugin " \o d)
          /\ \A f \in JsFiles :
                IF LocalModule(f).loads
                THEN /\ Logged("log", "[+] Loaded from " \o FileName(f))
                     /\ \A e \in Registered(LocalModule(f).exports) :
                           LocalUniqueId(Basename(f), e.name) \in DOMAIN sf.native
                ELSE Logged("warn", "[!] Error loading local module " \o FileName(f))

\* p's entry file threw and q, declared after it, is loaded; _bad.js failed
\* and a_b.js, read after it, is registered
C13_Witness ==
    /\ pc = "setup"
    /\ project.manifest.dependencies = <<"p", "q">>
    /\ project.installed["p"].entry = "throws"
    /\ Logged("warn", "[!] Failed to load plugin p")
    /\ sf.plugins = <<"q">>
    /\ project.modulesDir.files = <<File("_bad", ".js"), File("a_b", ".js")>>
    /\ Logged("warn", "[!] Error loading local module _bad.js")
    /\ "local_a_b_c" \in DOMAIN sf.native

\* text holds part, after one of the prefixes render gives its messages
Contains(text, part) ==
    \E prefix \in {"", "Jsonnet Evaluation Error: "} : text = prefix \o part

(***************************************************************************)
(* C14. When the evaluation inside render or renderString fails, also      *)
(* because a native function called during it throws, the operation        *)
(* rejects with an error whose message contains the message of the         *)
(* original error, and returns no result.                                  *)
(***************************************************************************)
C14_RenderFailureKeepsMessage ==
    [][/\ (lastCall' # lastCall /\ lastCall'.result = Thrown) =>
            /\ pc' = "aborting"
            /\ outcome'.cause = ThrownError(lastCall'.func)
       /\ pc = "aborting" =>
            /\ outcome.cause # NoError
            /\ outcome'.op = outcome.op
            /\ outcome'.status = "rejected"
            /\ Contains(outcome'.message, outcome.cause.message)
            /\ outcome'.returned = "none"]_vars

\* renderString failed because local_a_b:c threw "boom"
C14_Witness ==
    /\ outcome.op = "renderString"
    /\ outcome.status = "rejected"
    /\ lastCall.result = Thrown
    /\ outcome.cause = Error("boom")
    /\ outcome.message = "Jsonnet Evaluation Error: boom"
    /\ outcome.returned = "none"

\* every queued hook has run to completion, in queue order
InitCompleted ==
    /\ Len(hookLog) = Len(sf.initFn)
    /\ \A i \in DOMAIN hookLog : hookLog[i] = [hook |-> sf.initFn[i], state |-> "completed"]

(***************************************************************************)
(* C15. The generate command runs discovery, the init hooks, render and    *)
(* write in that order: the engine evaluates only after the constructor    *)
(* has returned and every init hook has completed, write runs only after   *)
(* render has succeeded, and after a step has failed no step runs.         *)
(***************************************************************************)
C15_GenerateStepOrder ==
    project.program = "generate" =>
        /\ (outcome.op # "none" \/ lastCall.via # "none") =>
              /\ "envvar" \in DOMAIN sf.native
              /\ InitCompleted
        /\ (pc = "done" \/ renderDir # {}) =>
              /\ outcome.status = "resolved"
              /\ sf.lastRender = Evaluated(outcome.op, outcome.dir)
        /\ pc = "failed" =>
              /\ ~ENABLED Next
              /\ renderDir = {}
              /\ outcome.status \in {"none", "rejected"}
              /\ outcome.status = "none" => lastCall.via = "none"

\* generate ran its hooks, evaluated with a native call, and wrote main.json
C15_Witness ==
    /\ project.program = "generate"
    /\ pc = "done"
    /\ Len(hookLog) = 3
    /\ InitCompleted
    /\ lastCall.via = "native"
    /\ outcome.status = "resolved"
    /\ renderDir = {"main.json"}

\* the hooks the plugins of a load order queue: for each plugin in turn, the
\* entries of its initFn field in list order
RECURSIVE QueuedHooks(_)
QueuedHooks(plugins) ==
    IF plugins = << >> THEN << >>
    ELSE HookItems(EntryModule(Head(plugins)).metadata.initFn) \o QueuedHooks(Tail(plugins))

(***************************************************************************)
(* C19. init() runs the queued hooks one at a time in queue order, the     *)
(* queue being in plugin load order and in list order within a plugin: a   *)
(* hook is started only when every hook before it has completed, and       *)
(* after a hook has failed no further hook is started.                     *)
(***************************************************************************)
C19_HooksSequentialInOrder ==
    /\ sf.initFn = QueuedHooks(sf.plugins)
    /\ Len(hookLog) <= Len(sf.initFn)
    /\ \A i \in DOMAIN hookLog :
          /\ hookLog[i].hook = sf.initFn[i]
          /\ i < Len(hookLog) => hookLog[i].state = "completed"
    /\ (hookLog # << >> /\ hookLog[Len(hookLog)].state = "failed") =>
          /\ pc = "failed"
          /\ ~ENABLED InitHookStart

\* p.init and p.check completed in that order, then q.init failed
C19_Witness ==
    /\ sf.plugins = <<"p", "q">>
    /\ hookLog = << [hook |-> "p.init", state |-> "completed"],
                    [hook |-> "p.check", state |-> "completed"],
                    [hook |-> "q.init", state |-> "failed"] >>
    /\ pc = "failed"

\* the context fields a plugin's metadata contributes
ContextOf(p) == EntryModule(p).metadata.functionContext

\* the positions in the load order of the plugins that contribute key k
Contributors(k) == {i \in DOMAIN sf.plugins : k \in DOMAIN ContextOf(sf.plugins[i])}

(***************************************************************************)
(* C18. After plugins P1..Pn have been loaded in that order the shared     *)
(* context holds exactly the keys some plugin contributed, each with the   *)
(* value given by the last plugin in load order that contributed it.       *)
(***************************************************************************)
C18_LastLoadedPluginWins ==
    /\ DOMAIN sf.functionContext =
          UNION {DOMAIN ContextOf(sf.plugins[i]) : i \in DOMAIN sf.plugins}
    /\ \A k \in DOMAIN sf.functionContext :
          sf.functionContext[k] = ContextOf(sf.plugins[Last(Contributors(k))])[k]

\* loaded p, q, p: region is p's again, account is still q's
C18_Witness ==
    /\ sf.plugins = <<"p", "q", "p">>
    /\ sf.functionContext = [k \in {"region", "account"} |-> IF k = "region" THEN "p" ELSE "q"]

\* what the root manifest lists under devDependencies only
RootDevOnly ==
    IF project.manifest.present /\ project.manifest.parses
    THEN Range(project.manifest.devDependencies) \ Range(project.manifest.dependencies)
    ELSE {}

\* what the extensions among ps declare, development dependencies included
DeclaredWithDevBy(ps) ==
    DeclaredBy(ps) \cup
    UNION {Range(project.installed[p].devDependencies) : p \in {x \in ps : IsExtension(x)}}

RECURSIVE ClosureWithDev(_, _)
ClosureWithDev(ps, n) ==
    IF n = 0 THEN ps ELSE ClosureWithDev(ps \cup DeclaredWithDevBy(ps), n - 1)

\* reachable from the root only by going through the development
\* dependencies of a package that is not the root
NestedDevOnly == ClosureWithDev(RootDependencies, Cardinality(Packages)) \ Reachable

(***************************************************************************)
(* C20. Development dependencies count for the root manifest only: when    *)
(* the constructor returns, an extension the root lists under              *)
(* devDependencies only is loaded, and an extension reachable only through *)
(* the devDependencies of another package is not loaded.                   *)
(***************************************************************************)
C20_DevDependenciesRootOnly ==
    (pc = "setup" /\ made.loads = 0) =>
        /\ \A d \in RootDevOnly : IsLoadable(d) => Count(sf.plugins, d) = 1
        /\ \A x \in NestedDevOnly : x \notin LoadedPlugins

\* local_a_b is a development dependency of the root and is loaded; p is a
\* development dependency of local_a_b and is not
C20_Witness ==
    /\ pc = "setup"
    /\ "local_a_b" \in RootDevOnly
    /\ "local_a_b" \in LoadedPlugins
    /\ project.installed["local_a_b"].devDependencies = <<"p">>
    /\ IsLoadable("p")
    /\ "p" \in NestedDevOnly
    /\ "p" \notin LoadedPlugins

\* the parameter names the source text of a function declares
DeclaredParameters(body) ==
    CASE body \in {"add", "sum", "pick"} -> <<"a", "b">>
      [] body \in {"first", "double"} -> <<"x">>
      [] body = "shout" -> <<"text">>
      [] OTHER -> << >>

\* the wrappers the aggregator has for the export e of the local script f
WrappersOf(f, e) ==
    {w \in Wrappers : w.moduleName = Basename(f) /\ w.wrapper.funcName = e.name}

(***************************************************************************)
(* C16. For a function whose parameter list is a parenthesized,            *)
(* comma-separated list of simple names, some with default values, the     *)
(* introspector returns the declared names in order, without the defaults  *)
(* and without empty entries: the wrapper generated for such an export of  *)
(* a local script has exactly the declared parameters.                     *)
(***************************************************************************)
C16_ParenthesizedListWithDefaults ==
    pc # "start" =>
    \A f \in LocalScripts :
        \A e \in Registered(LocalModule(f).exports) :
            (e.kind = "function" /\ e.body \in {"add", "first", "noop", "sum", "pick"}) =>
                /\ GetFunctionParameterList(e.body) = DeclaredParameters(e.body)
                /\ \A w \in WrappersOf(f, e) : w.wrapper.params = DeclaredParameters(e.body)

(***************************************************************************)
(* C17. The introspector takes the names from the outermost parameter list *)
(* only: for an arrow function whose expression body contains parentheses  *)
(* and for a single-parameter arrow function without parentheses the       *)
(* result is the declared names, with no text of the body in it.           *)
(***************************************************************************)
C17_OutermostListOnly ==
    pc # "start" =>
    \A f \in LocalScripts :
        \A e \in Registered(LocalModule(f).exports) :
            (e.kind = "function" /\ e.body \in {"shout", "double"}) =>
                /\ GetFunctionParameterList(e.body) = DeclaredParameters(e.body)
                /\ \A w \in WrappersOf(f, e) : w.wrapper.params = DeclaredParameters(e.body)

\* the name belongs to an export of the entry file of package p
IsExportOf(name, p) ==
    \E e \in Registered(EntryModule(p).exports) : name = PluginUniqueId(p, e.name)

\* what the metadata block of p's entry file would queue and merge
HooksOf(p) ==
    Range(HookItems(EntryModule(p).metadata.initFn))
        \cup Range(HookItems(EntryModule(p).metadata.cliExtensions))

(***************************************************************************)
(* C21. Functions, hooks and context fields come only from packages that   *)
(* resolved, carry the extension marker and whose entry file loaded: every *)
(* loaded plugin is such a package, every function registered from a       *)
(* package, every queued hook and every context field is one of a loaded   *)
(* plugin, and a declared dependency without the marker has none of its    *)
(* exports registered.                                                     *)
(***************************************************************************)
C21_OnlyLoadedExtensionsContribute ==
    /\ \A p \in LoadedPlugins : IsLoadable(p)
    /\ \A name \in DOMAIN sf.native :
          sf.native[name].func.origin = "plugin" =>
              sf.native[name].func.unit \in LoadedPlugins
    /\ \A h \in Range(sf.initFn) \cup Range(sf.cliExtensions) :
          \E p \in LoadedPlugins : h \in HooksOf(p)
    /\ \A k \in DOMAIN sf.functionContext :
          \E p \in LoadedPlugins :
              k \in DOMAIN ContextOf(p) /\ sf.functionContext[k] = ContextOf(p)[k]
    /\ \A d \in RootDependencies :
          ~IsLoadable(d) =>
              /\ \A name \in DOMAIN sf.native : ~IsExportOf(name, d)
              /\ \A i \in DOMAIN sf.fileTypeHandlers :
                    \A j \in DOMAIN EntryModule(d).metadata.fileTypeHandlers :
                        sf.fileTypeHandlers[i] # EntryModule(d).metadata.fileTypeHandlers[j]

\* q is declared and installed, exports callables, hooks and context fields,
\* but has no marker: p is loaded and nothing of q is there
C21_Witness ==
    /\ pc = "setup"
    /\ project.manifest.dependencies = <<"p", "q">>
    /\ project.installed["q"].resolves
    /\ ~project.installed["q"].marker
    /\ project.installed["q"].entry = "ok"
    /\ Registered(EntryModule("q").exports) # {}
    /\ HooksOf("q") # {}
    /\ sf.plugins = <<"p">>
    /\ "p:c" \in DOMAIN sf.native
    /\ "q:c" \notin DOMAIN sf.native
    /\ sf.initFn = <<"p.init", "p.check">>
    /\ sf.functionContext = [k \in {"region"} |-> "p"]

(***************************************************************************)
(* C22. Every failure discovery recovers from leaves a console line that   *)
(* names the offending node: when the constructor has returned, an         *)
(* unparseable root manifest, a dependency that does not resolve, an       *)
(* extension whose entry file is missing and an extension whose entry file *)
(* throws each have a line of one of the messages the code prints, ending  *)
(* in the name of the node.                                                *)
(***************************************************************************)
C22_RecoveredFailuresLogged ==
    LET LoggedAbout(node) ==
            \E level \in {"warn", "log"} :
                \E prefix \in {"Debug: Could not load potential plugin ",
                               "[!] Failed to load plugin "} :
                    Logged(level, prefix \o node)
    IN  (pc = "setup" /\ made.loads = 0) =>
            /\ (project.manifest.present /\ ~project.manifest.parses) =>
                  LoggedAbout("package.json")
            /\ \A d \in RootDependencies :
                  /\ ~project.installed[d].resolves => LoggedAbout(d)
                  /\ (IsExtension(d) /\ project.installed[d].entry = "missing") =>
                        LoggedAbout(d)
                  /\ (IsExtension(d) /\ project.installed[d].entry = "throws") =>
                        LoggedAbout(d)

(***************************************************************************)
(* importModule: importSpellCraftModuleFromNpm and the constructor that    *)
(* reads spellcraft_modules/packages.json, in the two drafts of index.js   *)
(* that have them. A package specifier is a list of tokens, "@" and "/"    *)
(* being tokens of their own. Here project is the disk (node_modules and   *)
(* packages.json), sf the frame's list of loaded modules and lastCall the  *)
(* import that was asked for.                                              *)
(***************************************************************************)
\* the specifiers given on the command line
Specifiers ==
    { <<"p">>, <<"p", "@", "1.0.0">>,
      <<"@", "scope", "/", "p">>, <<"@", "scope", "/", "p", "@", "1.0.0">> }

\* text.split(sep)[0] and what follows the first sep
Before(text, sep) ==
    LET at == First({i \in DOMAIN text : text[i] = sep})
    IN  IF at = 0 THEN text ELSE SubSeq(text, 1, at - 1)
After(text, sep) ==
    LET at == First({i \in DOMAIN text : text[i] = sep})
    IN  IF at = 0 THEN << >> ELSE SubSeq(text, at + 1, Len(text))

\* the directory under node_modules that npm install <specifier> creates:
\* the package name, without the version
InstalledName(npmPackage) ==
    IF Head(npmPackage) = "@"
    THEN "@" \o Join(Before(Tail(npmPackage), "@"))
    ELSE Join(Before(npmPackage, "@"))

\* spellcraft_module_default_name of an installed package; "" when it has none
DefaultName(dir) == IF dir = "@scope/p" THEN "awsauth" ELSE ""

\* npmPackageBaseName: `@${npmPackage.split('/')[1].split('@')[0]}` for a
\* specifier that starts with @, npmPackage.split('@')[0] otherwise
NpmPackageBaseName(npmPackage) ==
    IF Head(npmPackage) = "@"
    THEN "@" \o Join(Before(Before(After(npmPackage, "/"), "/"), "@"))
    ELSE Join(Before(npmPackage, "@"))

NoPackagesJson == [state |-> "absent", entries |-> << >>]

\* packages[k] = v on the object read from packages.json, written back
PutEntry(entries, k, v) ==
    IF \E i \in DOMAIN entries : entries[i].k = k
    THEN [i \in DOMAIN entries |-> IF entries[i].k = k THEN [k |-> k, v |-> v] ELSE entries[i]]
    ELSE Append(entries, [k |-> k, v |-> v])

\* loadModuleByName(moduleKey, npmPackageName): the loaded modules afterwards
LoadModuleByName(loaded, disk, moduleKey, npmPackageName) ==
    IF npmPackageName \notin disk.nodeModules THEN loaded
    ELSE Append(loaded, [moduleKey |-> moduleKey, npmPackageName |-> npmPackageName])

\* loadModulesFromPackageList: an entry is [moduleKey, npmPackageName] in the
\* first draft and [npmPackageName, moduleKey] in the last
RECURSIVE LoadModulesFromPackageList(_, _, _)
LoadModulesFromPackageList(loaded, disk, entries) ==
    IF disk.packagesJson.state # "ok" \/ entries = << >> THEN loaded
    ELSE LoadModulesFromPackageList(
            IF disk.draft = 1
            THEN LoadModuleByName(loaded, disk, Head(entries).k, Head(entries).v)
            ELSE LoadModuleByName(loaded, disk, Head(entries).v, Head(entries).k),
            disk, Tail(entries))

\* importSpellCraftModuleFromNpm(npmPackage, name): how it ends, and the disk
\* and the loaded modules afterwards; name = "" when it is omitted
ImportSpellCraftModuleFromNpm(loaded, disk, npmPackage, name) ==
    LET npmPath == Join(npmPackage)
        installed == IF npmPath \in disk.nodeModules THEN disk
                     ELSE [disk EXCEPT !.nodeModules = @ \cup {InstalledName(npmPackage)}]
        packages == IF disk.packagesJson.state = "ok" THEN disk.packagesJson.entries ELSE << >>
        packagesKey == IF name # "" THEN name ELSE DefaultName(npmPath)
        thrown(d) == [ends |-> "thrown", disk |-> d, loaded |-> loaded]
    IN  IF npmPath \notin installed.nodeModules THEN thrown(installed)
        ELSE IF name = "" /\ DefaultName(npmPath) = "" THEN thrown(installed)
        ELSE IF disk.draft = 1
        THEN LET linked == [installed EXCEPT !.packagesJson =
                               [state |-> "ok",
                                entries |-> PutEntry(packages, packagesKey,
                                                     NpmPackageBaseName(npmPackage))]]
             IN  [ends |-> "linked", disk |-> linked,
                  loaded |-> LoadModuleByName(loaded, linked, packagesKey,
                                              NpmPackageBaseName(npmPackage))]
        ELSE IF disk.isModule
        THEN [ends |-> "not linked", disk |-> installed, loaded |-> loaded]
        ELSE [ends |-> "linked",
              disk |-> [installed EXCEPT !.packagesJson =
                           [state |-> "ok",
                            entries |-> PutEntry(packages, npmPath, packagesKey)]],
              loaded |-> loaded]

\* the projects in which importModule is run
ImportProjects ==
    [program : {"importModule"}, draft : {1, 4}, isModule : BOOLEAN,
     nodeModules : {{}, {"p"}, {"@scope/p"}},
     packagesJson : {NoPackagesJson, [state |-> "unparsable", entries |-> << >>],
                     [state |-> "ok", entries |-> <<[k |-> "old", v |-> "old"]>>]}]

ImportInit ==
    /\ project \in ImportProjects
    /\ sf = [loadedModules |-> << >>]
    /\ pc = "cli"
    /\ lastCall = [npmPackage |-> << >>, name |-> ""]
    /\ aggregate = NoArtifact
    /\ calls = EmptyObject
    /\ hookLog = << >>
    /\ made = [calls |-> 0, loads |-> 0]
    /\ outcome = NoRender
    /\ renderDir = {}

\* spellcraft importModule <npmPackage> [name]; the frame of the command has
\* read packages.json as it was
ImportModule(npmPackage, name) ==
    /\ pc = "cli"
    /\ LET loaded == LoadModulesFromPackageList(<< >>, project, project.packagesJson.entries)
           r == ImportSpellCraftModuleFromNpm(loaded, project, npmPackage, name)
       IN  /\ project' = r.disk
           /\ sf' = [loadedModules |-> r.loaded]
           /\ pc' = r.ends
    /\ lastCall' = [npmPackage |-> npmPackage, name |-> name]
    /\ UNCHANGED <<aggregate, calls, hookLog, made, outcome, renderDir>>

\* a later process: new SpellFrame() reads the packages.json on disk
NewSpellFrame ==
    /\ pc \in {"linked", "not linked", "thrown"}
    /\ sf' = [loadedModules |->
                 LoadModulesFromPackageList(<< >>, project, project.packagesJson.entries)]
    /\ pc' = "constructed after " \o pc
    /\ UNCHANGED <<project, aggregate, calls, lastCall, hookLog, made, outcome, renderDir>>

ImportNext ==
    \/ \E npmPackage \in Specifiers, name \in {"", "alias"} : ImportModule(npmPackage, name)
    \/ NewSpellFrame

ImportSpec == ImportInit /\ [][ImportNext]_vars

\* the module key of the import that was asked for
ModuleKey ==
    IF lastCall.name # "" THEN lastCall.name ELSE DefaultName(InstalledName(lastCall.npmPackage))

\* packages.json links the module key k to the package
Links(k, package) ==
    /\ project.packagesJson.state = "ok"
    /\ \E i \in DOMAIN project.packagesJson.entries :
          project.packagesJson.entries[i] \in
              {[k |-> k, v |-> package], [k |-> package, v |-> k]}

(***************************************************************************)
(* C23. After importSpellCraftModuleFromNpm(npmPackage, name) has linked   *)
(* the package, packages.json links the module key (name, or the package's *)
(* default name) to the package that was installed, and a SpellFrame       *)
(* constructed afterwards has loaded that package under that key; for      *)
(* every specifier, scoped or with a version.                              *)
(***************************************************************************)
C23_ImportLinksAndLoads ==
    /\ pc \in {"linked", "constructed after linked"} =>
          Links(ModuleKey, InstalledName(lastCall.npmPackage))
    /\ pc = "constructed after linked" =>
          [moduleKey |-> ModuleKey, npmPackageName |-> InstalledName(lastCall.npmPackage)]
              \in Range(sf.loadedModules)

(***************************************************************************)
(* C24. The invocation cache only grows: no step removes an entry or       *)
(* changes its value, whether the step is an invocation, a render or a     *)
(* plugin load, and an invocation whose key has an entry returns the       *)
(* stored value without running the callable.                              *)
(***************************************************************************)
C24_CacheOnlyGrows ==
    [][/\ \A key \in DOMAIN sf.cache :
             key \in DOMAIN sf'.cache /\ sf'.cache[key] = sf.cache[key]
       /\ made'.calls = made.calls + 1 =>
             LET key == GenerateCacheKey(lastCall'.name, lastCall'.args)
             IN  key \in DOMAIN sf.cache =>
                     /\ lastCall'.result = sf.cache[key]
                     /\ ~lastCall'.executed
                     /\ calls' = calls]_vars

(***************************************************************************)
(* C25. The root manifest fixes the order in which discovery loads the     *)
(* plugins: when the constructor has returned, the load order lists each   *)
(* loadable package the manifest declares exactly once and nothing else,   *)
(* in the order of the declared dependencies followed by the development   *)
(* dependencies, a package in both maps standing where it is declared      *)
(* first. The order is thus a function of the project, the same in every   *)
(* run.                                                                    *)
(***************************************************************************)
C25_LoadOrderFixedByManifest ==
    (pc = "setup" /\ made.loads = 0 /\ project.manifest.present /\ project.manifest.parses) =>
        LET declared == project.manifest.dependencies \o project.manifest.devDependencies
            position(p) == First({i \in DOMAIN declared : declared[i] = p})
        IN  /\ \A p \in Range(declared) : IsLoadable(p) => Count(sf.plugins, p) = 1
            /\ \A p \in Range(sf.plugins) : p \in Range(declared) /\ IsLoadable(p)
            /\ \A i \in DOMAIN sf.plugins, j \in DOMAIN sf.plugins :
                  i < j => position(sf.plugins[i]) < position(sf.plugins[j])


(***************************************************************************)
(* C26.                                                                    *)
(***************************************************************************)
\* C26: whenever the engine calls the built-in path during a render, what
\* the call returns is the directory of the input of that render (the
\* working directory during renderString), also after the same frame has
\* rendered an input of another directory.
C26_PathIsDirOfCurrentRender ==
    [][(made'.calls = made.calls + 1 /\ lastCall'.name = "path")
          => lastCall'.result = JsString(outcome.dir)]_vars


(***************************************************************************)
(* C27.                                                                    *)
(***************************************************************************)
\* C27, as stated: when the callable throws or returns undefined the cache
\* is left unchanged, what it threw reaches the caller of the render, and
\* the next invocation with the same name and arguments runs the callable
\* again.
C27_FailedExecutionLeavesCacheUnchanged ==
    [][made'.calls = made.calls + 1 =>
          /\ (lastCall'.executed /\ lastCall'.result \in {Thrown, JsUndefined})
                => sf'.cache = sf.cache
          /\ lastCall'.result = Thrown
                => (pc' = "aborting" /\ outcome'.cause = ThrownError(lastCall'.func))
          /\ ( /\ lastCall.via # "none"
               /\ lastCall.result \in {Thrown, JsUndefined}
               /\ lastCall'.name = lastCall.name
               /\ lastCall'.args = lastCall.args )
                => lastCall'.executed]_vars

\* C27, amended: when the callable throws the cache is left unchanged; when
\* it returns undefined the key is stored with the value undefined, which
\* every lookup reads as a miss, and no lookup of any key changes its answer;
\* what it threw reaches the caller of the render, and the next invocation
\* with the same name and arguments runs the callable again.
C27_FailedExecutionStoresNothingDefined ==
    [][made'.calls = made.calls + 1 =>
          LET key == GenerateCacheKey(lastCall'.name, lastCall'.args)
          IN  /\ (lastCall'.executed /\ lastCall'.result = Thrown)
                    => sf'.cache = sf.cache
              /\ (lastCall'.executed /\ lastCall'.result = JsUndefined)
                    => /\ sf'.cache = Put(sf.cache, key, JsUndefined)
                       /\ \A k \in DOMAIN sf'.cache :
                             CacheGet(sf'.cache, k) = CacheGet(sf.cache, k)
              /\ lastCall'.result = Thrown
                    => (pc' = "aborting" /\ outcome'.cause = ThrownError(lastCall'.func))
              /\ ( /\ lastCall.via # "none"
                   /\ lastCall.result \in {Thrown, JsUndefined}
                   /\ lastCall'.name = lastCall.name
                   /\ lastCall'.args = lastCall.args )
                    => lastCall'.executed]_vars

\* a callable threw in one render and, invoked with the same arguments in
\* the next, ran and threw again
C27_Witness ==
    /\ pc = "aborting"
    /\ lastCall.executed
    /\ lastCall.result = Thrown
    /\ outcome.cause = ThrownError(lastCall.func)
    /\ LET run == [func |-> lastCall.func,
                   key |-> GenerateCacheKey(lastCall.name, lastCall.args)]
       IN  /\ run \in DOMAIN calls
           /\ calls[run] = 2
           /\ run.key \notin DOMAIN sf.cache


(***************************************************************************)
(* C28.                                                                    *)
(***************************************************************************)
\* C28: every invocation of a registered callable, whichever plugin or local
\* script registered it and the built-ins too, has as receiver the one
\* context of the frame, which holds the fields of every plugin loaded so
\* far; a callable registered before a later plugin merged its fields reads
\* those fields through `this`.
C28_SharedContextIsReceiver ==
    [][made'.calls = made.calls + 1 =>
          LET merged == [k \in UNION {DOMAIN ContextOf(sf.plugins[i]) : i \in DOMAIN sf.plugins}
                            |-> ContextOf(sf.plugins[Last(Contributors(k))])[k]]
          IN  /\ lastCall'.receiver = merged
              /\ lastCall'.func.body = "whoami" =>
                    lastCall'.direct = IF "region" \in DOMAIN merged
                                       THEN JsString(merged["region"])
                                       ELSE JsUndefined]_vars

\* the export of package 7, registered before p and q were loaded, returned
\* the region q merged into the context
C28_Witness ==
    /\ sf.plugins = <<"7", "p", "q">>
    /\ lastCall.func = Callable("plugin", "7", "c", "whoami")
    /\ lastCall.executed
    /\ lastCall.result = JsString("q")
    /\ lastCall.receiver = [k \in {"region", "account"} |-> "q"]


(***************************************************************************)
(* C29.                                                                    *)
(***************************************************************************)
\* C29: a render that fails leaves lastRender as it was: lastRender changes
\* only in the step in which an evaluation resolves, and then to the result
\* of that evaluation; a render of a file that does not exist is rejected
\* before anything else and leaves the whole frame, activePath included, as
\* it was; until a render has resolved lastRender is null.
C29_FailedRenderKeepsLastRender ==
    [][/\ sf'.lastRender # sf.lastRender
            => /\ pc = "evaluating"
               /\ outcome'.status = "resolved"
               /\ sf'.lastRender = Evaluated(outcome.op, outcome.dir)
       /\ (outcome'.status = "rejected" /\ outcome.status = "pending")
            => sf'.lastRender = sf.lastRender
       /\ (outcome'.status = "rejected" /\ outcome.status # "pending")
            => sf' = sf
       /\ (outcome'.status = "rejected" /\ outcome.op = "none")
            => sf'.lastRender = "null"]_vars

\* a frame rendered the input of the working directory, and was then asked
\* for the input of the subdirectory, which does not exist
C29_Witness ==
    /\ outcome.status = "rejected"
    /\ outcome.dir = SubDir
    /\ outcome.cause = MissingInput(SubDir)
    /\ sf.lastRender = Evaluated("render", Cwd)
    /\ sf.activePath = Cwd


(***************************************************************************)
(* C30.                                                                    *)
(***************************************************************************)
\* C30: a write of a rendered object that changes the render directory
\* leaves in it, with cleanBeforeRender set, the entries that are not files
\* with a name matching a pattern of the handler table, and the outputs;
\* with cleanBeforeRender unset, all entries and the outputs.
C30_CleanRemovesExactlyMatching ==
    [][renderDir' # renderDir =>
          LET matching == {f \in renderDir :
                              /\ ~IsDirectory(f)
                              /\ \E i \in DOMAIN sf.fileTypeHandlers :
                                    RegexTest(sf.fileTypeHandlers[i].pattern, f)}
          IN  /\ sf.lastRender # "null"
              /\ renderDir' = (IF sf.cleanBeforeRender THEN renderDir \ matching
                                                       ELSE renderDir) \cup RenderedFiles]_vars

====
